---- MODULE Spec2Model ----
(***************************************************************************)
(* Transactional outbox write path of the order service.                   *)
(*                                                                         *)
(* The relational store is PostgreSQL at its default isolation level       *)
(* (READ COMMITTED): every statement of a transaction sees the rows        *)
(* committed when the statement starts plus the transaction's own writes;  *)
(* an UPDATE takes a row lock held until the transaction ends; a           *)
(* transaction's writes become visible to others atomically at commit.     *)
(* Each worker is one request-handling goroutine.                          *)
(***************************************************************************)
EXTENDS Integers, Sequences, FiniteSets, TLC

\* ------------------------------------------------------------------ bounds
NumWorkers == 2
MaxOrders == 2
MaxCalls == 2
MaxRows == 3
MaxPageSize == 2
MaxProductCalls == 3
MaxServices == 2
MaxRaceCalls == 3

Workers == 1..NumWorkers
UUIDs == 1..MaxOrders

\* ------------------------------------------------------- domain constants
OrderStatusUnspecified == 0
OrderStatusPending == 1
OrderStatusProcessing == 2
OrderStatusShipped == 3
OrderStatusDelivered == 4
OrderStatusCancelled == 5

EventTypeOrderCreated == "order_created"
EventTypeOrderStatusUpdated == "order_status_updated"
AggregateTypeOrder == "order"

\* The empty string ID and the zero time.Time.
EmptyID == 0
ZeroTime == <<0, 0>>

\* ------------------------------------------------------------------ inputs
CustomerIDs == {"", "c1"}

Item1 == [ProductID |-> "p1", Quantity |-> 2, Price |-> 1000]
Item2 == [ProductID |-> "p2", Quantity |-> 1, Price |-> 1500]
ItemLists == {<< >>, <<Item1, Item2>>}

StatusInputs == {OrderStatusUnspecified, OrderStatusPending, OrderStatusProcessing}

\* ListOrders requests: the customers whose orders are listed, the page sizes
\* (0 is what a gRPC request without page_size carries, a negative one what
\* the HTTP handler parses from page_size=-1) and the page tokens.
ListIDs == 1..MaxRows
ListCustomers == {"c1", "c2"}
PageSizes == (-1)..MaxPageSize
PageTokens == {EmptyID} \cup ListIDs

\* The handlers that call the service. The HTTP handler passes the decoded
\* request on as it is, so its requests are also those of any direct caller.
Vias == {"http", "grpc"}


\* ------------------------------------------------------------------- state
VARIABLES
    orders,      \* committed rows of table orders (with their order_items), by id
    outbox,      \* committed rows of table order_outbox, in commit order
    tx,          \* per worker: the *gorm.DB transaction handle of the call in progress
    pc,          \* per worker: position in the handler
    call,        \* per worker: arguments and locals of the call in progress
    issued,      \* order ids uuid.New() has returned so far
    calls,       \* number of requests that have arrived so far
    client,      \* the reading caller: its GetOrder / ListOrders request and the answers
    consumed,    \* the outbox rows the change-data-capture consumer has emitted, in order
    products,    \* committed rows of table products, by id
    redis,       \* the Redis keys that hold a value, with their values
    pcall,       \* per worker: the product repository call in progress and its position
    factory      \* the OrderFactory / ProductFactory call in progress and its position

vars == <<orders, outbox, tx, pc, call, issued, calls, client, consumed, products, redis, pcall,
          factory>>

\* Requests are handed to the free worker of lowest index (workers are
\* interchangeable goroutines).
Free(w) == pc[w] = "idle" /\ \A v \in Workers : v < w => pc[v] # "idle"

\* time.Now(): every reading of the wall clock is an instant of its own, named
\* by the request that reads it (its arrival number) and by which of its
\* readings it is. Instants are only ever compared for equality.
Now(w, k) == <<call[w].seq, k>>

NoOrder == [ID |-> EmptyID, CustomerID |-> "", Items |-> << >>, Status |-> OrderStatusUnspecified,
            TotalAmount |-> 0, CreatedAt |-> ZeroTime, UpdatedAt |-> ZeroTime]

NoTx == [state |-> "none", ins |-> {}, upd |-> {}, out |-> << >>,
         commitCalls |-> 0, rollbackCalls |-> 0]

\* The reading caller before its first request. A page token is an order id;
\* the empty token is the empty id.
NoClient == [op |-> "", seq |-> 0, orderID |-> EmptyID, order |-> NoOrder, customerID |-> "",
             pageSize |-> 0, pageToken |-> EmptyID, pages |-> << >>, err |-> ""]

NoCall == [seq |-> 0, op |-> "", customerID |-> "", items |-> << >>, orderID |-> EmptyID,
           status |-> OrderStatusUnspecified, created |-> NoOrder, result |-> NoOrder, err |-> "", rowsAffected |-> 0,
           ctxDone |-> FALSE]

\* ------------------------------------------------------ pure functions
RECURSIVE SumItems(_)
SumItems(items) ==
    IF items = << >> THEN 0
    ELSE Head(items).Price * Head(items).Quantity + SumItems(Tail(items))

\* Slip: the total adds up the prices and forgets the quantities.
prepareOrder_PricesOnly(order, uuid, now) ==
    LET RECURSIVE SumPrices(_)
        SumPrices(items) == IF items = << >> THEN 0
                            ELSE Head(items).Price + SumPrices(Tail(items))
    IN [order EXCEPT
          !.ID = IF order.ID = EmptyID THEN uuid ELSE order.ID,
          !.CreatedAt = now,
          !.UpdatedAt = now,
          !.TotalAmount = IF order.TotalAmount = 0 THEN SumPrices(order.Items) ELSE order.TotalAmount,
          !.Status = IF order.Status = OrderStatusUnspecified THEN OrderStatusPending ELSE order.Status]

\* Slip: updated_at left for the store to fill in; the order keeps its zero value.
prepareOrder_NoUpdatedAt(order, uuid, now) ==
    [order EXCEPT
        !.ID = IF order.ID = EmptyID THEN uuid ELSE order.ID,
        !.CreatedAt = now,
        !.TotalAmount = IF order.TotalAmount = 0 THEN SumItems(order.Items) ELSE order.TotalAmount,
        !.Status = IF order.Status = OrderStatusUnspecified THEN OrderStatusPending ELSE order.Status]

\* prepareOrder: id, timestamps, total and default status of an order to create.
prepareOrder(order, uuid, now) ==
    [order EXCEPT
        !.ID = IF order.ID = EmptyID THEN uuid ELSE order.ID,
        !.CreatedAt = now,
        !.UpdatedAt = now,
        !.TotalAmount = IF order.TotalAmount = 0 THEN SumItems(order.Items) ELSE order.TotalAmount,
        !.Status = IF order.Status = OrderStatusUnspecified THEN OrderStatusPending ELSE order.Status]

\* FromOrderDomain: the OrderModel (with its OrderItemModels) of a domain order.
FromOrderDomain(order) ==
    [ID |-> order.ID, CustomerID |-> order.CustomerID, Status |-> order.Status,
     TotalAmount |-> order.TotalAmount,
     Items |-> [i \in DOMAIN order.Items |->
                  [OrderID |-> order.ID, ProductID |-> order.Items[i].ProductID,
                   Quantity |-> order.Items[i].Quantity, Price |-> order.Items[i].Price]],
     CreatedAt |-> order.CreatedAt, UpdatedAt |-> order.UpdatedAt]

\* ToOrderDomain: the domain order of an OrderModel.
ToOrderDomain(m) ==
    [ID |-> m.ID, CustomerID |-> m.CustomerID,
     Items |-> [i \in DOMAIN m.Items |->
                  [ProductID |-> m.Items[i].ProductID, Quantity |-> m.Items[i].Quantity,
                   Price |-> m.Items[i].Price]],
     Status |-> m.Status, TotalAmount |-> m.TotalAmount,
     CreatedAt |-> m.CreatedAt, UpdatedAt |-> m.UpdatedAt]

\* Slip: TotalAmount tagged `json:"-"`, so the payload carries no total.
MarshalOrder_NoTotal(order) ==
    [id |-> order.ID, customer_id |-> order.CustomerID,
     items |-> [i \in DOMAIN order.Items |->
                  [product_id |-> order.Items[i].ProductID, quantity |-> order.Items[i].Quantity,
                   price |-> order.Items[i].Price]],
     status |-> order.Status, total_amount |-> 0,
     created_at |-> order.CreatedAt, updated_at |-> order.UpdatedAt]

\* json.Marshal of a domain.Order: the JSON object, by its json tags.
MarshalOrder(order) ==
    [id |-> order.ID, customer_id |-> order.CustomerID,
     items |-> [i \in DOMAIN order.Items |->
                  [product_id |-> order.Items[i].ProductID, quantity |-> order.Items[i].Quantity,
                   price |-> order.Items[i].Price]],
     status |-> order.Status, total_amount |-> order.TotalAmount,
     created_at |-> order.CreatedAt, updated_at |-> order.UpdatedAt]

\* json.Unmarshal of a payload into a domain.Order (what the consumer does).
UnmarshalOrder(payload) ==
    [ID |-> payload.id, CustomerID |-> payload.customer_id,
     Items |-> [i \in DOMAIN payload.items |->
                  [ProductID |-> payload.items[i].product_id, Quantity |-> payload.items[i].quantity,
                   Price |-> payload.items[i].price]],
     Status |-> payload.status, TotalAmount |-> payload.total_amount,
     CreatedAt |-> payload.created_at, UpdatedAt |-> payload.updated_at]

\* Slip: the entry's own id used as aggregate id.
NewOrderCreatedOutboxEntry_OwnID(order, uuid, now) ==
    [ID |-> uuid, AggregateType |-> AggregateTypeOrder, AggregateID |-> uuid,
     EventType |-> EventTypeOrderCreated, Payload |-> MarshalOrder(order), CreatedAt |-> now]

\* NewOrderCreatedOutboxEntry: the ORDER_CREATED envelope of an order snapshot.
NewOrderCreatedOutboxEntry(order, uuid, now) ==
    [ID |-> uuid, AggregateType |-> AggregateTypeOrder, AggregateID |-> order.ID,
     EventType |-> EventTypeOrderCreated, Payload |-> MarshalOrder(order), CreatedAt |-> now]

\* Slip: copied from NewOrderCreatedOutboxEntry with the event type left as it was.
NewOrderStatusUpdatedOutboxEntry_Copied(order, uuid, now) ==
    [ID |-> uuid, AggregateType |-> AggregateTypeOrder, AggregateID |-> order.ID,
     EventType |-> EventTypeOrderCreated, Payload |-> MarshalOrder(order), CreatedAt |-> now]

\* Slip: the entry keyed by the order's id in place of a uuid of its own.
NewOrderStatusUpdatedOutboxEntry_OrderKey(order, uuid, now) ==
    [ID |-> order.ID, AggregateType |-> AggregateTypeOrder, AggregateID |-> order.ID,
     EventType |-> EventTypeOrderStatusUpdated, Payload |-> MarshalOrder(order), CreatedAt |-> now]

\* NewOrderStatusUpdatedOutboxEntry: the ORDER_STATUS_UPDATED envelope.
NewOrderStatusUpdatedOutboxEntry(order, uuid, now) ==
    [ID |-> uuid, AggregateType |-> AggregateTypeOrder, AggregateID |-> order.ID,
     EventType |-> EventTypeOrderStatusUpdated, Payload |-> MarshalOrder(order), CreatedAt |-> now]

\* ------------------------------------------------------ the store
\* The rows of table orders a statement of worker w's transaction sees.
Visible(w) ==
    LET own == tx[w].ins
        ids == DOMAIN orders \cup {r.ID : r \in own}
        base(id) == IF \E r \in own : r.ID = id THEN CHOOSE r \in own : r.ID = id ELSE orders[id]
    IN [id \in ids |->
          IF \E u \in tx[w].upd : u.ID = id
          THEN LET u == CHOOSE x \in tx[w].upd : x.ID = id
               IN [base(id) EXCEPT !.Status = u.Status, !.UpdatedAt = u.UpdatedAt]
          ELSE base(id)]

\* Slip: the status written without a row lock (no UPDATE inside the
\* transaction before the reads).
LockedByOther_Never(w, id) == FALSE

\* Row lock: another open transaction has updated the row and not yet ended.
LockedByOther(w, id) ==
    \E v \in Workers \ {w} : tx[v].state = "open" /\ \E u \in tx[v].upd : u.ID = id

\* tx.Rollback(): the transaction ends and its writes are discarded.
Rollback(t) ==
    [t EXCEPT !.state = "rolledback", !.ins = {}, !.upd = {}, !.out = << >>,
              !.rollbackCalls = t.rollbackCalls + 1]

\* An operation returns (result, err); its locals die with it.
Returns(c, result, err) ==
    [c EXCEPT !.result = result, !.err = err, !.created = NoOrder]

\* tx.Commit() succeeding: the writes of the transaction, applied to the tables at once.
CommittedOrders(t) ==
    LET ids == DOMAIN orders \cup {r.ID : r \in t.ins}
        base(id) == IF \E r \in t.ins : r.ID = id THEN CHOOSE r \in t.ins : r.ID = id ELSE orders[id]
    IN [id \in ids |->
          IF \E u \in t.upd : u.ID = id
          THEN LET u == CHOOSE x \in t.upd : x.ID = id
               IN [base(id) EXCEPT !.Status = u.Status, !.UpdatedAt = u.UpdatedAt]
          ELSE base(id)]

\* Slip: the outbox keyed by aggregate, a new entry replacing the order's last one.
CommittedOutbox_Upsert(t) ==
    SelectSeq(outbox, LAMBDA e : \A i \in DOMAIN t.out : t.out[i].AggregateID # e.AggregateID) \o t.out

CommittedOutbox(t) == outbox \o t.out

IsCreate(op) == op \in {"CreateOrder", "RepoCreateOrder"}

\* Creates that have not yet drawn their order id.
PendingCreates == {v \in Workers : pc[v] = "createWithTx"}

CanStartCreate == Cardinality(issued) + Cardinality(PendingCreates) < MaxOrders

\* ------------------------------------------------- the product side
ProductStatusUnspecified == 0
ProductStatusActive == 1

\* A domain.Product: name stands for the columns a caller sets (name,
\* description, price, stock).
NoProduct == [ID |-> EmptyID, Name |-> "", Category |-> "", Status |-> ProductStatusUnspecified,
              CreatedAt |-> ZeroTime, UpdatedAt |-> ZeroTime]

NoProductCall == [seq |-> 0, op |-> "", pc |-> "idle", productID |-> EmptyID, product |-> NoProduct,
                  cacheKey |-> << >>, products |-> << >>, nextPageToken |-> EmptyID,
                  result |-> NoProduct, err |-> ""]

\* A factory call: the operation, the number of configured services, the
\* index of the service the loop is at, the services called and the errors
\* they returned so far, and what the factory returns.
NoFactoryCall == [pc |-> "idle", op |-> "", n |-> 0, i |-> 0, invoked |-> << >>, errs |-> << >>,
                  result |-> << >>, err |-> ""]

\* The product service is not part of the runs of the order service.
NoProductSide ==
    /\ products = << >>
    /\ redis = << >>
    /\ pcall = [w \in Workers |-> NoProductCall]

\* ----------------------------------------------------------------- Init
\* The tables survive restarts: the service starts on an empty database or on
\* one holding an order that an earlier run of CreateOrder committed.
SeedID == CHOOSE id \in UUIDs : \A other \in UUIDs : id <= other
SeedOrderModel ==
    FromOrderDomain(prepareOrder([NoOrder EXCEPT !.CustomerID = "c1", !.Items = <<Item1, Item2>>,
                                                 !.Status = OrderStatusPending],
                                 SeedID, <<0, 1>>))
SeedEntry == NewOrderCreatedOutboxEntry(ToOrderDomain(SeedOrderModel), 0, <<0, 2>>)

Init ==
    /\ \/ /\ orders = << >>
          /\ outbox = << >>
          /\ issued = {}
       \/ /\ orders = (SeedID :> SeedOrderModel)
          /\ outbox = <<SeedEntry>>
          /\ issued = {SeedID}
    /\ tx = [w \in Workers |-> NoTx]
    /\ pc = [w \in Workers |-> "idle"]
    /\ call = [w \in Workers |-> NoCall]
    /\ calls = 0
    /\ client = NoClient
    /\ consumed = << >>
    /\ factory = NoFactoryCall
    /\ NoProductSide

\* ------------------------------------------------- BeginTransaction
\* r.db.WithContext(ctx).Begin() as the first step of call c: the transaction
\* is open and the call goes on at `next`, or the error of Begin is returned.
BeginTransaction(w, c, next) ==
    \/ /\ tx' = [tx EXCEPT ![w] = [NoTx EXCEPT !.state = "open"]]
       /\ pc' = [pc EXCEPT ![w] = next]
       /\ call' = [call EXCEPT ![w] = c]
    \/ /\ tx' = tx
       /\ pc' = [pc EXCEPT ![w] = "done"]
       /\ call' = [call EXCEPT ![w] = Returns(c, NoOrder, "begin failed")]

\* --------------------------------------------------- CreateOrder
\* A CreateOrder request, from the HTTP handler (which validates nothing) or
\* from the gRPC handler (which rejects an empty customer id or item list),
\* up to and including the service's BeginTransaction.
CreateOrder(w, via, customerID, items) ==
    /\ Free(w)
    /\ calls < MaxCalls
    /\ calls' = calls + 1
    /\ LET c == [NoCall EXCEPT !.seq = calls + 1, !.op = "CreateOrder",
                               !.customerID = customerID, !.items = items]
       IN IF via = "grpc" /\ (customerID = "" \/ Len(items) = 0)
          THEN /\ pc' = [pc EXCEPT ![w] = "done"]
               /\ call' = [call EXCEPT ![w] = Returns(c, NoOrder, "InvalidArgument")]
               /\ tx' = tx
          ELSE /\ CanStartCreate
               /\ BeginTransaction(w, c, "createWithTx")
    /\ UNCHANGED <<orders, outbox, issued, client, consumed, products, redis, pcall, factory>>

\* ---------------------------------------------- UpdateOrderStatus
\* An UpdateOrderStatus request, up to and including the service's
\* BeginTransaction, while fewer than `budget` requests have arrived.
UpdateOrderStatusRequest(budget, w, orderID, status) ==
    /\ Free(w)
    /\ calls < budget
    /\ calls' = calls + 1
    /\ BeginTransaction(w, [NoCall EXCEPT !.seq = calls + 1, !.op = "UpdateOrderStatus",
                                          !.orderID = orderID,
                                          !.status = status],
                        "update")
    /\ UNCHANGED <<orders, outbox, issued, client, consumed, products, redis, pcall, factory>>

UpdateOrderStatus(w, orderID, status) == UpdateOrderStatusRequest(MaxCalls, w, orderID, status)

\* ------------------------------- the repository's own wrappers
RepoCreateOrder(w, customerID, items) ==
    /\ Free(w)
    /\ calls < MaxCalls
    /\ CanStartCreate
    /\ calls' = calls + 1
    /\ BeginTransaction(w, [NoCall EXCEPT !.seq = calls + 1, !.op = "RepoCreateOrder",
                                          !.customerID = customerID,
                                          !.items = items],
                        "createWithTx")
    /\ UNCHANGED <<orders, outbox, issued, client, consumed, products, redis, pcall, factory>>

RepoUpdateOrderStatus(w, orderID, status) ==
    /\ Free(w)
    /\ calls < MaxCalls
    /\ calls' = calls + 1
    /\ BeginTransaction(w, [NoCall EXCEPT !.seq = calls + 1, !.op = "RepoUpdateOrderStatus",
                                          !.orderID = orderID,
                                          !.status = status],
                        "update")
    /\ UNCHANGED <<orders, outbox, issued, client, consumed, products, redis, pcall, factory>>

\* ------------------------------------------------ CreateOrderWithTx
\* The order the callers build, then prepareOrder, FromOrderDomain and
\* tx.Create; on error the caller rolls back and returns the error.
\* uuid.New() returns an id never returned before; unused ids are
\* interchangeable, so it is the lowest of them.
CreateOrderWithTx(w) ==
    /\ pc[w] = "createWithTx"
    /\ \E uuid \in {u \in UUIDs \ issued : \A o \in UUIDs \ issued : u <= o} :
         LET order == prepareOrder([NoOrder EXCEPT !.CustomerID = call[w].customerID,
                                                   !.Items = call[w].items,
                                                   !.Status = OrderStatusPending],
                                   uuid, Now(w, 1))
             orderModel == FromOrderDomain(order)
         IN /\ issued' = issued \cup {uuid}
            /\ \/ /\ orderModel.ID \notin DOMAIN orders
                  /\ tx' = [tx EXCEPT ![w].ins = @ \cup {orderModel}]
                  /\ call' = [call EXCEPT ![w].orderID = order.ID,
                                          ![w].created = ToOrderDomain(orderModel)]
                  /\ pc' = [pc EXCEPT ![w] =
                               IF call[w].op = "CreateOrder" THEN "newCreatedEntry" ELSE "commit"]
               \/ /\ tx' = [tx EXCEPT ![w] = Rollback(@)]
                  /\ call' = [call EXCEPT ![w] =
                                 Returns([@ EXCEPT !.orderID = order.ID], NoOrder,
                                         "insert failed")]
                  /\ pc' = [pc EXCEPT ![w] = "done"]
    /\ UNCHANGED <<orders, outbox, calls, client, consumed, products, redis, pcall, factory>>

\* ---------------------------------- the outbox entry of the write
\* Slip: the entry saved by SaveOutboxEntryWithTx and once more by its caller.
SaveOutboxEntryWithTx_Twice(t, entry) == [t EXCEPT !.out = Append(Append(@, entry), entry)]

\* SaveOutboxEntryWithTx: tx.WithContext(ctx).Create(entry).
SaveOutboxEntryWithTx(t, entry) == [t EXCEPT !.out = Append(@, entry)]

\* Slip: the entry saved with SaveOutboxEntry (r.db, a transaction of its own)
\* in place of SaveOutboxEntryWithTx.
OrderCreatedEntry_OwnTx(w) ==
    /\ pc[w] = "newCreatedEntry"
    /\ \/ /\ outbox' = Append(outbox, NewOrderCreatedOutboxEntry(call[w].created,
                                                                call[w].seq, Now(w, 2)))
          /\ tx' = tx
          /\ call' = call
          /\ pc' = [pc EXCEPT ![w] = "commit"]
       \/ /\ outbox' = outbox
          /\ tx' = [tx EXCEPT ![w] = Rollback(@)]
          /\ call' = [call EXCEPT ![w] = Returns(@, NoOrder, "marshal failed")]
          /\ pc' = [pc EXCEPT ![w] = "done"]
       \/ /\ outbox' = outbox
          /\ tx' = [tx EXCEPT ![w] = Rollback(@)]
          /\ call' = [call EXCEPT ![w] = Returns(@, NoOrder, "outbox insert failed")]
          /\ pc' = [pc EXCEPT ![w] = "done"]
    /\ UNCHANGED <<orders, issued, calls, client, consumed, products, redis, pcall, factory>>

\* Slip: a serialization error answered with tx.Commit() in place of tx.Rollback().
OrderCreatedEntry_CommitOnError(w) ==
    /\ pc[w] = "newCreatedEntry"
    /\ \/ /\ tx' = [tx EXCEPT ![w] =
                       SaveOutboxEntryWithTx(@, NewOrderCreatedOutboxEntry(call[w].created,
                                                                          call[w].seq, Now(w, 2)))]
          /\ call' = call
          /\ pc' = [pc EXCEPT ![w] = "commit"]
          /\ UNCHANGED <<orders, outbox>>
       \/ /\ orders' = CommittedOrders(tx[w])
          /\ outbox' = CommittedOutbox(tx[w])
          /\ tx' = [tx EXCEPT ![w].state = "committed", ![w].commitCalls = @ + 1]
          /\ call' = [call EXCEPT ![w] = Returns(@, NoOrder, "marshal failed")]
          /\ pc' = [pc EXCEPT ![w] = "done"]
       \/ /\ tx' = [tx EXCEPT ![w] = Rollback(@)]
          /\ call' = [call EXCEPT ![w] = Returns(@, NoOrder, "outbox insert failed")]
          /\ pc' = [pc EXCEPT ![w] = "done"]
          /\ UNCHANGED <<orders, outbox>>
    /\ UNCHANGED <<issued, calls, client, consumed, products, redis, pcall, factory>>

\* NewOrderCreatedOutboxEntry, then SaveOutboxEntryWithTx; either may fail,
\* and then the service rolls back and returns the error.
OrderCreatedEntry(w) ==
    /\ pc[w] = "newCreatedEntry"
    /\ \/ /\ tx' = [tx EXCEPT ![w] =
                       SaveOutboxEntryWithTx(@, NewOrderCreatedOutboxEntry(call[w].created,
                                                                          call[w].seq, Now(w, 2)))]
          /\ call' = call
          /\ pc' = [pc EXCEPT ![w] = "commit"]
       \/ /\ tx' = [tx EXCEPT ![w] = Rollback(@)]
          /\ call' = [call EXCEPT ![w] = Returns(@, NoOrder, "marshal failed")]
          /\ pc' = [pc EXCEPT ![w] = "done"]
       \/ /\ tx' = [tx EXCEPT ![w] = Rollback(@)]
          /\ call' = [call EXCEPT ![w] = Returns(@, NoOrder, "outbox insert failed")]
          /\ pc' = [pc EXCEPT ![w] = "done"]
    /\ UNCHANGED <<orders, outbox, issued, calls, client, consumed, products, redis, pcall, factory>>

\* Slip: the error of SaveOutboxEntryWithTx returned without tx.Rollback().
OrderStatusUpdatedEntry_NoRollback(w) ==
    /\ pc[w] = "newUpdatedEntry"
    /\ \/ /\ tx' = [tx EXCEPT ![w] =
                       SaveOutboxEntryWithTx(@, NewOrderStatusUpdatedOutboxEntry(call[w].created,
                                                                                call[w].seq, Now(w, 2)))]
          /\ call' = call
          /\ pc' = [pc EXCEPT ![w] = "commit"]
       \/ /\ tx' = [tx EXCEPT ![w] = Rollback(@)]
          /\ call' = [call EXCEPT ![w] = Returns(@, NoOrder, "marshal failed")]
          /\ pc' = [pc EXCEPT ![w] = "done"]
       \/ /\ tx' = tx
          /\ call' = [call EXCEPT ![w] = Returns(@, NoOrder, "outbox insert failed")]
          /\ pc' = [pc EXCEPT ![w] = "done"]
    /\ UNCHANGED <<orders, outbox, issued, calls, client, consumed, products, redis, pcall, factory>>

\* NewOrderStatusUpdatedOutboxEntry, then SaveOutboxEntryWithTx.
OrderStatusUpdatedEntry(w) ==
    /\ pc[w] = "newUpdatedEntry"
    /\ \/ /\ tx' = [tx EXCEPT ![w] =
                       SaveOutboxEntryWithTx(@, NewOrderStatusUpdatedOutboxEntry(call[w].created,
                                                                                call[w].seq, Now(w, 2)))]
          /\ call' = call
          /\ pc' = [pc EXCEPT ![w] = "commit"]
       \/ /\ tx' = [tx EXCEPT ![w] = Rollback(@)]
          /\ call' = [call EXCEPT ![w] = Returns(@, NoOrder, "marshal failed")]
          /\ pc' = [pc EXCEPT ![w] = "done"]
       \/ /\ tx' = [tx EXCEPT ![w] = Rollback(@)]
          /\ call' = [call EXCEPT ![w] = Returns(@, NoOrder, "outbox insert failed")]
          /\ pc' = [pc EXCEPT ![w] = "done"]
    /\ UNCHANGED <<orders, outbox, issued, calls, client, consumed, products, redis, pcall, factory>>

\* ------------------------------------------------------ tx.Commit()
\* A Commit that fails ends the transaction at the engine with none of its
\* writes applied; the code returns the error without calling Rollback.
Commit(w) ==
    /\ pc[w] = "commit"
    /\ \/ /\ orders' = CommittedOrders(tx[w])
          /\ outbox' = CommittedOutbox(tx[w])
          /\ tx' = [tx EXCEPT ![w].state = "committed", ![w].commitCalls = @ + 1]
          /\ call' = [call EXCEPT ![w] = Returns(@, call[w].created, "")]
       \/ /\ UNCHANGED <<orders, outbox>>
          /\ tx' = [tx EXCEPT ![w].state = "aborted", ![w].commitCalls = @ + 1,
                              ![w].ins = {}, ![w].upd = {}, ![w].out = << >>]
          /\ call' = [call EXCEPT ![w] = Returns(@, NoOrder, "commit failed")]
    /\ pc' = [pc EXCEPT ![w] = "done"]
    /\ UNCHANGED <<issued, calls, client, consumed, products, redis, pcall, factory>>

\* ------------------------------------------ UpdateOrderStatusWithTx
\* Slip: the UPDATE issued without its WHERE id = ? clause.
UpdateOrderStatusWithTx_Update_AllRows(w) ==
    /\ pc[w] = "update"
    /\ \A id \in DOMAIN Visible(w) : ~LockedByOther(w, id)
    /\ \/ /\ tx' = [tx EXCEPT ![w].upd =
                       {[ID |-> id, Status |-> call[w].status, UpdatedAt |-> Now(w, 1)] :
                           id \in DOMAIN Visible(w)}]
          /\ call' = [call EXCEPT ![w].rowsAffected =
                          IF call[w].orderID \in DOMAIN Visible(w) THEN 1 ELSE 0]
          /\ pc' = [pc EXCEPT ![w] = "count"]
       \/ /\ tx' = [tx EXCEPT ![w] = Rollback(@)]
          /\ call' = [call EXCEPT ![w] = Returns(@, NoOrder, "update failed")]
          /\ pc' = [pc EXCEPT ![w] = "done"]
    /\ UNCHANGED <<orders, outbox, issued, calls, client, consumed, products, redis, pcall, factory>>

\* Statement 1: UPDATE orders SET status, updated_at WHERE id = orderID.
\* It waits while another transaction holds the row lock.
UpdateOrderStatusWithTx_Update(w) ==
    /\ pc[w] = "update"
    /\ ~LockedByOther(w, call[w].orderID)
    /\ \/ /\ IF call[w].orderID \in DOMAIN Visible(w)
             THEN /\ tx' = [tx EXCEPT ![w].upd =
                              {u \in @ : u.ID # call[w].orderID} \cup
                              {[ID |-> call[w].orderID, Status |-> call[w].status,
                                UpdatedAt |-> Now(w, 1)]}]
                  /\ call' = [call EXCEPT ![w].rowsAffected = 1]
             ELSE /\ tx' = tx
                  /\ call' = [call EXCEPT ![w].rowsAffected = 0]
          /\ pc' = [pc EXCEPT ![w] = "count"]
       \/ /\ tx' = [tx EXCEPT ![w] = Rollback(@)]
          /\ call' = [call EXCEPT ![w] = Returns(@, NoOrder, "update failed")]
          /\ pc' = [pc EXCEPT ![w] = "done"]
    /\ UNCHANGED <<orders, outbox, issued, calls, client, consumed, products, redis, pcall, factory>>

\* Statement 2: SELECT count(*) FROM orders WHERE id = orderID.
UpdateOrderStatusWithTx_Count(w) ==
    /\ pc[w] = "count"
    /\ \/ /\ call[w].orderID \in DOMAIN Visible(w)
          /\ tx' = tx
          /\ call' = call
          /\ pc' = [pc EXCEPT ![w] = "first"]
       \/ /\ call[w].orderID \notin DOMAIN Visible(w)
          /\ tx' = [tx EXCEPT ![w] = Rollback(@)]
          /\ call' = [call EXCEPT ![w] = Returns(@, NoOrder, "order not found")]
          /\ pc' = [pc EXCEPT ![w] = "done"]
       \/ /\ tx' = [tx EXCEPT ![w] = Rollback(@)]
          /\ call' = [call EXCEPT ![w] = Returns(@, NoOrder, "count failed")]
          /\ pc' = [pc EXCEPT ![w] = "done"]
    /\ UNCHANGED <<orders, outbox, issued, calls, client, consumed, products, redis, pcall, factory>>

\* Slip: the outbox entry of the service's update saved on the wrapper's path too.
UpdateOrderStatusWithTx_First_Entry(w) ==
    /\ pc[w] = "first"
    /\ \/ /\ call[w].orderID \in DOMAIN Visible(w)
          /\ tx' = tx
          /\ call' = [call EXCEPT ![w].created = ToOrderDomain(Visible(w)[call[w].orderID])]
          /\ pc' = [pc EXCEPT ![w] = "newUpdatedEntry"]
       \/ /\ tx' = [tx EXCEPT ![w] = Rollback(@)]
          /\ call' = [call EXCEPT ![w] = Returns(@, NoOrder, "select failed")]
          /\ pc' = [pc EXCEPT ![w] = "done"]
    /\ UNCHANGED <<orders, outbox, issued, calls, client, consumed, products, redis, pcall, factory>>

\* Statement 3: SELECT the order with its items.
UpdateOrderStatusWithTx_First(w) ==
    /\ pc[w] = "first"
    /\ \/ /\ call[w].orderID \in DOMAIN Visible(w)
          /\ tx' = tx
          /\ call' = [call EXCEPT ![w].created = ToOrderDomain(Visible(w)[call[w].orderID])]
          /\ pc' = [pc EXCEPT ![w] =
                       IF call[w].op = "UpdateOrderStatus" THEN "newUpdatedEntry" ELSE "commit"]
       \/ /\ tx' = [tx EXCEPT ![w] = Rollback(@)]
          /\ call' = [call EXCEPT ![w] = Returns(@, NoOrder, "select failed")]
          /\ pc' = [pc EXCEPT ![w] = "done"]
    /\ UNCHANGED <<orders, outbox, issued, calls, client, consumed, products, redis, pcall, factory>>

\* ----------------------------------------------------------- return
\* The handler returns to its caller; the worker is free for the next request.
Return(w) ==
    /\ pc[w] = "done"
    /\ pc' = [pc EXCEPT ![w] = "idle"]
    /\ call' = [call EXCEPT ![w] = NoCall]
    /\ tx' = [tx EXCEPT ![w] = NoTx]
    /\ UNCHANGED <<orders, outbox, issued, calls, client, consumed, products, redis, pcall, factory>>

\* ------------------------------------------------------------ specs
\* The INSERT of a fresh order, the INSERT of its outbox row and the return to
\* the caller touch nothing another transaction can see, lock or wait for
\* before Commit: they commute with every step of the other workers, are not
\* interleaving points, and are taken as soon as they are enabled.
LocalPcs == {"createWithTx", "newCreatedEntry", "newUpdatedEntry", "done"}

Quiet == \A v \in Workers : pc[v] \notin LocalPcs

LocalStep(w) ==
    \/ CreateOrderWithTx(w)
    \/ OrderCreatedEntry(w)
    \/ OrderStatusUpdatedEntry(w)
    \/ Return(w)

\* Statements that read or write committed rows, and Commit.
SharedStep(w) ==
    /\ Quiet
    /\ \/ Commit(w)
       \/ UpdateOrderStatusWithTx_Update(w)
       \/ UpdateOrderStatusWithTx_Count(w)
       \/ UpdateOrderStatusWithTx_First(w)

Step(w) == LocalStep(w) \/ SharedStep(w)

\* Requests served by DBOrderService only.
Next ==
    \/ /\ Quiet
       /\ \E w \in Workers, via \in Vias, c \in CustomerIDs, items \in ItemLists :
             CreateOrder(w, via, c, items)
    \/ /\ Quiet
       /\ \E w \in Workers, id \in UUIDs, s \in StatusInputs : UpdateOrderStatus(w, id, s)
    \/ \E w \in Workers : Step(w)

Spec == Init /\ [][Next]_vars

\* The service and the callers of the repository's own wrappers side by side.
\* The transaction lifecycle does not depend on the order's data: one
\* customer, one item list, one target status.
NextRepo ==
    \/ /\ Quiet
       /\ \E w \in Workers : CreateOrder(w, "http", "c1", <<Item1, Item2>>)
    \/ /\ Quiet
       /\ \E w \in Workers, id \in UUIDs : UpdateOrderStatus(w, id, OrderStatusProcessing)
    \/ /\ Quiet
       /\ \E w \in Workers : RepoCreateOrder(w, "c1", <<Item1, Item2>>)
    \/ /\ Quiet
       /\ \E w \in Workers, id \in UUIDs : RepoUpdateOrderStatus(w, id, OrderStatusProcessing)
    \/ \E w \in Workers : Step(w)

SpecRepo == Init /\ [][NextRepo]_vars

\* ------------------------------------------------------- ListOrders
\* ORDER BY id: the ids of a set of rows, ascending.
RECURSIVE SortedIDs(_)
SortedIDs(ids) ==
    IF ids = {} THEN << >>
    ELSE LET first == CHOOSE id \in ids : \A other \in ids : id <= other
         IN <<first>> \o SortedIDs(ids \ {first})

\* GormOrderRepository.ListOrders: the customer's rows after pageToken in id
\* order, pageSize + 1 of them at most; when more than pageSize rows came back
\* the last is dropped and nextPageToken is set. orderModels[len-1] of an
\* empty slice is a run-time panic (index out of range).
ListOrders(customerID, pageSize, pageToken) ==
    LET matching == {id \in DOMAIN orders :
                        /\ orders[id].CustomerID = customerID
                        /\ pageToken # EmptyID => id > pageToken}
        sorted == SortedIDs(matching)
        limit == IF pageSize > 0 THEN pageSize + 1 ELSE Len(sorted)
        orderModels == SubSeq(sorted, 1, IF limit < Len(sorted) THEN limit ELSE Len(sorted))
        more == Len(orderModels) > pageSize
        panic == more /\ orderModels = << >>
        kept == IF more THEN SubSeq(orderModels, 1, Len(orderModels) - 1) ELSE orderModels
    IN [orders |-> [i \in DOMAIN kept |-> ToOrderDomain(orders[kept[i]])],
        nextPageToken |-> IF more /\ ~panic THEN orders[orderModels[Len(orderModels)]].ID
                          ELSE EmptyID,
        panic |-> panic]

\* One ListOrders call of the reading caller with page token `token`: the
\* page is added to what the caller has, or the query fails and the caller
\* gets the error.
ListPage(c, token) ==
    \/ LET r == ListOrders(c.customerID, c.pageSize, token)
       IN IF r.panic
          THEN client' = [c EXCEPT !.err = "index out of range"]
          ELSE client' = [c EXCEPT !.pages = Append(@, [pageToken |-> token, orders |-> r.orders,
                                                        nextPageToken |-> r.nextPageToken])]
    \/ client' = [c EXCEPT !.err = "find failed"]

\* The caller's first ListOrders request.
ClientListOrders(customerID, pageSize, pageToken) ==
    /\ client.op = ""
    /\ ListPage([NoClient EXCEPT !.op = "ListOrders", !.customerID = customerID,
                                 !.pageSize = pageSize, !.pageToken = pageToken],
                pageToken)
    /\ UNCHANGED <<orders, outbox, tx, pc, call, issued, calls, consumed, products, redis, pcall, factory>>

\* The caller asks for the next page with the token it was given.
ClientNextPage ==
    /\ client.op = "ListOrders"
    /\ client.err = ""
    /\ client.pages[Len(client.pages)].nextPageToken # EmptyID
    /\ ListPage(client, client.pages[Len(client.pages)].nextPageToken)
    /\ UNCHANGED <<orders, outbox, tx, pc, call, issued, calls, consumed, products, redis, pcall, factory>>

\* The tables a run of the service can leave behind: any of the orders
\* ListIDs, each of one of the customers, with its ORDER_CREATED row.
TableOrder(id, customerID) ==
    FromOrderDomain(prepareOrder([NoOrder EXCEPT !.CustomerID = customerID,
                                                 !.Items = <<Item1, Item2>>,
                                                 !.Status = OrderStatusPending],
                                 id, <<0, id>>))

InitList ==
    /\ \E ids \in SUBSET ListIDs :
          \E customerOf \in [ids -> ListCustomers] :
             /\ orders = [id \in ids |-> TableOrder(id, customerOf[id])]
             /\ outbox = [i \in 1..Cardinality(ids) |->
                             NewOrderCreatedOutboxEntry(
                                 ToOrderDomain(TableOrder(SortedIDs(ids)[i], customerOf[SortedIDs(ids)[i]])),
                                 -i, <<0, -i>>)]
             /\ issued = ids
    /\ tx = [w \in Workers |-> NoTx]
    /\ pc = [w \in Workers |-> "idle"]
    /\ call = [w \in Workers |-> NoCall]
    /\ calls = 0
    /\ client = NoClient
    /\ consumed = << >>
    /\ factory = NoFactoryCall
    /\ NoProductSide

\* Listing with no concurrent writes.
NextList ==
    \/ \E c \in ListCustomers, n \in PageSizes, t \in PageTokens : ClientListOrders(c, n, t)
    \/ ClientNextPage

SpecList == InitList /\ [][NextList]_vars

\* --------------------------------------------------------- GetOrder
\* Slip: the order selected without Preload("Items").
GetOrder_NoPreload(orderID) ==
    IF orderID \in DOMAIN orders
    THEN [order |-> ToOrderDomain([orders[orderID] EXCEPT !.Items = << >>]), err |-> ""]
    ELSE [order |-> NoOrder, err |-> "order not found"]

\* GormOrderRepository.GetOrder: the committed row with its items, or
\* "order not found".
GetOrder(orderID) ==
    IF orderID \in DOMAIN orders
    THEN [order |-> ToOrderDomain(orders[orderID]), err |-> ""]
    ELSE [order |-> NoOrder, err |-> "order not found"]

\* The caller of a CreateOrder that has just returned an order reads it back
\* with GetOrder(id) (as the API test script does); the query may fail.
ClientGetOrder(w) ==
    /\ pc[w] = "done"
    /\ call[w].op = "CreateOrder"
    /\ call[w].err = ""
    /\ client.seq # call[w].seq
    /\ \/ client' = [NoClient EXCEPT !.op = "GetOrder", !.seq = call[w].seq,
                                     !.orderID = call[w].result.ID,
                                     !.order = GetOrder(call[w].result.ID).order,
                                     !.err = GetOrder(call[w].result.ID).err]
       \/ client' = [NoClient EXCEPT !.op = "GetOrder", !.seq = call[w].seq,
                                     !.orderID = call[w].result.ID, !.err = "select failed"]
    /\ UNCHANGED <<orders, outbox, tx, pc, call, issued, calls, consumed, products, redis, pcall, factory>>

\* The service with a caller that reads created orders back (requests over
\* HTTP; updates, which the read-back does not depend on, to one status).
NextRead ==
    \/ /\ Quiet
       /\ \E w \in Workers, c \in CustomerIDs, items \in ItemLists : CreateOrder(w, "http", c, items)
    \/ /\ Quiet
       /\ \E w \in Workers, id \in UUIDs : UpdateOrderStatus(w, id, OrderStatusProcessing)
    \/ \E w \in Workers : Step(w)
    \/ \E w \in Workers : ClientGetOrder(w)

SpecRead == Init /\ [][NextRead]_vars

\* ------------------------------------------- the outbox's consumer
\* The change-data-capture process tails the committed rows of order_outbox
\* in commit order and emits each one downstream.
Consume ==
    /\ Len(consumed) < Len(outbox)
    /\ consumed' = Append(consumed, outbox[Len(consumed) + 1])
    /\ UNCHANGED <<orders, outbox, tx, pc, call, issued, calls, client, products, redis, pcall, factory>>

\* The service (one customer, one item list, one target status: the consumer
\* does not look into the rows) with the consumer beside it.
NextConsumer ==
    \/ /\ Quiet
       /\ \E w \in Workers : CreateOrder(w, "http", "c1", <<Item1, Item2>>)
    \/ /\ Quiet
       /\ \E w \in Workers, id \in UUIDs : UpdateOrderStatus(w, id, OrderStatusProcessing)
    \/ \E w \in Workers : Step(w)
    \/ Consume

\* The consumer keeps running: a committed row it has not emitted yet is
\* emitted eventually.
SpecConsumer == Init /\ [][NextConsumer]_vars /\ WF_vars(Consume)

\* ------------------------------------------- context cancellation
\* Slip: the transaction begun on context.Background(): neither it nor its
\* statements see the request's cancellation.
CtxErr_Background(w) == FALSE

\* ctx.Err() # nil as the transaction of worker w and its statements see it:
\* Begin was called on r.db.WithContext(ctx), so it is the request's context.
CtxErr(w) == call[w].ctxDone

InFlight(w) == tx[w].state = "open" /\ pc[w] \notin {"idle", "done"}

\* The request's context is cancelled (the client went away) or its deadline
\* passes while the transaction is in flight.
CtxCancel(w) ==
    /\ InFlight(w)
    /\ ~call[w].ctxDone
    /\ call' = [call EXCEPT ![w].ctxDone = TRUE]
    /\ UNCHANGED <<orders, outbox, tx, pc, issued, calls, client, consumed, products, redis, pcall, factory>>

\* database/sql watches the context of a transaction begun with one and rolls
\* the transaction back when the context is done.
TxAwaitDone(w) ==
    /\ CtxErr(w)
    /\ tx[w].state = "open"
    /\ tx' = [tx EXCEPT ![w].state = "rolledback", ![w].ins = {}, ![w].upd = {}, ![w].out = << >>]
    /\ UNCHANGED <<orders, outbox, pc, call, issued, calls, client, consumed, products, redis, pcall, factory>>

\* The next statement of the call, or the wait for a row lock it is in, fails
\* with the context's error: the code calls tx.Rollback() and returns the
\* error. A Commit on a done context fails likewise and, as after any failed
\* Commit, the code returns the error without calling Rollback.
StatementCancelled(w) ==
    /\ CtxErr(w)
    /\ pc[w] \notin {"idle", "done"}
    /\ tx' = [tx EXCEPT ![w] =
                 IF pc[w] = "commit"
                 THEN [@ EXCEPT !.state = IF @ = "open" THEN "aborted" ELSE @,
                                !.commitCalls = @ + 1,
                                !.ins = {}, !.upd = {}, !.out = << >>]
                 ELSE Rollback(@)]
    /\ call' = [call EXCEPT ![w] = Returns(@, NoOrder, "context canceled")]
    /\ pc' = [pc EXCEPT ![w] = "done"]
    /\ UNCHANGED <<orders, outbox, issued, calls, client, consumed, products, redis, pcall, factory>>

\* A statement runs only on a context that is not done.
Proceed(w) == (pc[w] = "done" \/ ~CtxErr(w)) /\ Step(w)

\* Requests whose context may be cancelled at any point of their transaction.
\* Cancellation does not depend on the order's data: creates of one order
\* shape and updates of one order id, which exists or not.
NextCancel ==
    \/ /\ Quiet
       /\ \E w \in Workers : CreateOrder(w, "http", "c1", <<Item1, Item2>>)
    \/ /\ Quiet
       /\ \E w \in Workers : UpdateOrderStatus(w, SeedID, OrderStatusProcessing)
    \/ \E w \in Workers : Proceed(w)
    \/ \E w \in Workers : CtxCancel(w)
    \/ \E w \in Workers : TxAwaitDone(w)
    \/ \E w \in Workers : StatementCancelled(w)

\* Every handler goroutine and the watcher of every transaction keep running.
SpecCancel ==
    /\ Init
    /\ [][NextCancel]_vars
    /\ \A w \in Workers :
          /\ WF_vars(Proceed(w) \/ StatementCancelled(w))
          /\ WF_vars(TxAwaitDone(w))

\* ------------------------------------------- the product repositories
\* RedisProductRepository over GormProductRepository. Each call of the
\* underlying repository is one transaction and takes effect at its Commit.
ProductNames == {"n1", "n2"}
ProductCategories == {"k1"}
ListCategories == {""} \cup ProductCategories

orderVars == <<orders, outbox, tx, pc, call, client, consumed, factory>>

ProductFree(w) == pcall[w].pc = "idle" /\ \A v \in Workers : v < w => pcall[v].pc # "idle"

FromProductDomain(product) ==
    [ID |-> product.ID, Name |-> product.Name, Category |-> product.Category,
     Status |-> product.Status, CreatedAt |-> product.CreatedAt, UpdatedAt |-> product.UpdatedAt]

ToProductDomain(m) ==
    [ID |-> m.ID, Name |-> m.Name, Category |-> m.Category,
     Status |-> m.Status, CreatedAt |-> m.CreatedAt, UpdatedAt |-> m.UpdatedAt]

\* json.Marshal and json.Unmarshal of a domain.Product, by its json tags.
MarshalProduct(product) ==
    [id |-> product.ID, name |-> product.Name, category |-> product.Category,
     status |-> product.Status, created_at |-> product.CreatedAt, updated_at |-> product.UpdatedAt]

UnmarshalProduct(json) ==
    [ID |-> json.id, Name |-> json.name, Category |-> json.category,
     Status |-> json.status, CreatedAt |-> json.created_at, UpdatedAt |-> json.updated_at]

productKey(productID) == <<"product:", productID>>

categoryKey(category, pageSize, pageToken) == <<"category:", category, pageSize, pageToken>>

\* redis.Set(key, value, defaultCacheTTL) and redis.Del(key), when they succeed.
RedisSet(key, value) == [k \in DOMAIN redis \cup {key} |-> IF k = key THEN value ELSE redis[k]]

RedisDel(key) == [k \in DOMAIN redis \ {key} |-> redis[k]]

\* GormProductRepository.GetProduct.
RepoGetProduct(productID) ==
    IF productID \in DOMAIN products
    THEN [product |-> ToProductDomain(products[productID]), err |-> ""]
    ELSE [product |-> NoProduct, err |-> "product not found"]

\* GormProductRepository.ListProducts: the rows of the category (of every
\* category when it is empty) after pageToken in id order, pageSize + 1 of
\* them at most; when more than pageSize came back the last is dropped and
\* nextPageToken is set to its id.
RepoListProducts(category, pageSize, pageToken) ==
    LET matching == {id \in DOMAIN products :
                        /\ category # "" => products[id].Category = category
                        /\ pageToken # EmptyID => id > pageToken}
        sorted == SortedIDs(matching)
        limit == IF pageSize > 0 THEN pageSize + 1 ELSE Len(sorted)
        productModels == SubSeq(sorted, 1, IF limit < Len(sorted) THEN limit ELSE Len(sorted))
        more == Len(productModels) > pageSize
        panic == more /\ productModels = << >>
        kept == IF more THEN SubSeq(productModels, 1, Len(productModels) - 1) ELSE productModels
    IN [products |-> [i \in DOMAIN kept |-> ToProductDomain(products[kept[i]])],
        nextPageToken |-> IF more /\ ~panic THEN products[productModels[Len(productModels)]].ID
                          ELSE EmptyID,
        panic |-> panic]

ProductReturns(c, result, err) == [c EXCEPT !.pc = "done", !.result = result, !.err = err]

\* RedisProductRepository.CreateProduct, up to the return of the underlying
\* CreateProduct: id, timestamps and default status, then the INSERT in a
\* transaction of its own.
CreateProduct(w, name, category) ==
    /\ ProductFree(w)
    /\ calls < MaxProductCalls
    /\ calls' = calls + 1
    /\ \E uuid \in {u \in UUIDs \ issued : \A o \in UUIDs \ issued : u <= o} :
         LET c == [NoProductCall EXCEPT !.seq = calls + 1, !.op = "CreateProduct"]
             product == [NoProduct EXCEPT !.ID = uuid, !.Name = name, !.Category = category,
                                          !.Status = ProductStatusActive,
                                          !.CreatedAt = <<calls + 1, 1>>,
                                          !.UpdatedAt = <<calls + 1, 1>>]
             productModel == FromProductDomain(product)
         IN /\ issued' = issued \cup {uuid}
            /\ \/ /\ products' = [id \in DOMAIN products \cup {uuid} |->
                                    IF id = uuid THEN productModel ELSE products[id]]
                  /\ pcall' = [pcall EXCEPT ![w] =
                                  [c EXCEPT !.pc = "cacheSet", !.productID = uuid,
                                            !.product = ToProductDomain(productModel)]]
               \/ /\ products' = products
                  /\ pcall' = [pcall EXCEPT ![w] = ProductReturns(c, NoProduct, "database error")]
    /\ UNCHANGED <<redis, orderVars>>

\* RedisProductRepository.GetProduct, up to the answer of redis.Get: on a hit
\* the cached product is returned; on a miss or a Redis error the call goes on
\* to the underlying repository.
GetProduct(w, productID) ==
    /\ ProductFree(w)
    /\ calls < MaxProductCalls
    /\ calls' = calls + 1
    /\ LET c == [NoProductCall EXCEPT !.seq = calls + 1, !.op = "GetProduct", !.productID = productID]
       IN \/ /\ productKey(productID) \in DOMAIN redis
             /\ pcall' = [pcall EXCEPT ![w] =
                             ProductReturns(c, UnmarshalProduct(redis[productKey(productID)]), "")]
          \/ /\ pcall' = [pcall EXCEPT ![w] = [c EXCEPT !.pc = "repoGet"]]
    /\ UNCHANGED <<products, redis, issued, orderVars>>

\* r.repository.GetProduct of a GetProduct that missed the cache.
GetProduct_Repository(w) ==
    /\ pcall[w].pc = "repoGet"
    /\ \/ LET r == RepoGetProduct(pcall[w].productID)
          IN pcall' = [pcall EXCEPT ![w] =
                          IF r.err # "" THEN ProductReturns(@, NoProduct, r.err)
                          ELSE [@ EXCEPT !.pc = "cacheSet", !.product = r.product]]
       \/ pcall' = [pcall EXCEPT ![w] = ProductReturns(@, NoProduct, "database error")]
    /\ UNCHANGED <<products, redis, issued, calls, orderVars>>

\* json.Marshal and redis.Set of the product a CreateProduct, GetProduct or
\* UpdateProduct is about to return; the product is returned whether or not
\* Redis took it.
CacheSet(w) ==
    /\ pcall[w].pc = "cacheSet"
    /\ \/ redis' = RedisSet(productKey(pcall[w].product.ID), MarshalProduct(pcall[w].product))
       \/ redis' = redis
    /\ pcall' = [pcall EXCEPT ![w] = ProductReturns(@, pcall[w].product, "")]
    /\ UNCHANGED <<products, issued, calls, orderVars>>

\* RedisProductRepository.UpdateProduct, up to the return of the underlying
\* UpdateProduct: the caller's product (the stored one with another name)
\* gets its updated_at and is saved if a row with its id exists.
UpdateProduct(w, productID, name) ==
    /\ ProductFree(w)
    /\ calls < MaxProductCalls
    /\ calls' = calls + 1
    /\ LET c == [NoProductCall EXCEPT !.seq = calls + 1, !.op = "UpdateProduct", !.productID = productID]
           old == IF productID \in DOMAIN products THEN ToProductDomain(products[productID])
                  ELSE [NoProduct EXCEPT !.ID = productID, !.Status = ProductStatusActive]
           product == [old EXCEPT !.Name = name, !.UpdatedAt = <<calls + 1, 1>>]
           productModel == FromProductDomain(product)
       IN \/ /\ productID \in DOMAIN products
             /\ products' = [products EXCEPT ![productID] = productModel]
             /\ pcall' = [pcall EXCEPT ![w] =
                             [c EXCEPT !.pc = "cacheDel", !.product = ToProductDomain(productModel)]]
          \/ /\ productID \notin DOMAIN products
             /\ products' = products
             /\ pcall' = [pcall EXCEPT ![w] = ProductReturns(c, NoProduct, "product not found")]
          \/ /\ products' = products
             /\ pcall' = [pcall EXCEPT ![w] = ProductReturns(c, NoProduct, "database error")]
    /\ UNCHANGED <<redis, issued, orderVars>>

\* RedisProductRepository.DeleteProduct, up to the return of the underlying
\* DeleteProduct.
DeleteProduct(w, productID) ==
    /\ ProductFree(w)
    /\ calls < MaxProductCalls
    /\ calls' = calls + 1
    /\ LET c == [NoProductCall EXCEPT !.seq = calls + 1, !.op = "DeleteProduct", !.productID = productID]
       IN \/ /\ productID \in DOMAIN products
             /\ products' = [id \in DOMAIN products \ {productID} |-> products[id]]
             /\ pcall' = [pcall EXCEPT ![w] = [c EXCEPT !.pc = "cacheDel"]]
          \/ /\ productID \notin DOMAIN products
             /\ products' = products
             /\ pcall' = [pcall EXCEPT ![w] = ProductReturns(c, NoProduct, "product not found")]
          \/ /\ products' = products
             /\ pcall' = [pcall EXCEPT ![w] = ProductReturns(c, NoProduct, "database error")]
    /\ UNCHANGED <<redis, issued, orderVars>>

\* redis.Del(productKey(id)) of an UpdateProduct or a DeleteProduct; its error
\* is dropped. The update goes on to cache the updated product, the delete
\* returns nil.
CacheDel(w) ==
    /\ pcall[w].pc = "cacheDel"
    /\ \/ redis' = RedisDel(productKey(pcall[w].productID))
       \/ redis' = redis
    /\ pcall' = [pcall EXCEPT ![w] =
                    IF pcall[w].op = "UpdateProduct" THEN [@ EXCEPT !.pc = "cacheSet"]
                    ELSE ProductReturns(@, NoProduct, "")]
    /\ UNCHANGED <<products, issued, calls, orderVars>>

\* RedisProductRepository.ListProducts, up to the answer of redis.Get.
ListProducts(w, category, pageSize, pageToken) ==
    /\ ProductFree(w)
    /\ calls < MaxProductCalls
    /\ calls' = calls + 1
    /\ LET cacheKey == categoryKey(category, pageSize, pageToken)
           c == [NoProductCall EXCEPT !.seq = calls + 1, !.op = "ListProducts", !.cacheKey = cacheKey]
       IN \/ /\ cacheKey \in DOMAIN redis
             /\ pcall' = [pcall EXCEPT ![w] =
                             [ProductReturns(c, NoProduct, "") EXCEPT
                                 !.products = [i \in DOMAIN redis[cacheKey].Products |->
                                                  UnmarshalProduct(redis[cacheKey].Products[i])],
                                 !.nextPageToken = redis[cacheKey].NextPageToken]]
          \/ /\ pcall' = [pcall EXCEPT ![w] = [c EXCEPT !.pc = "repoList"]]
    /\ UNCHANGED <<products, redis, issued, orderVars>>

\* r.repository.ListProducts of a ListProducts that missed the cache.
ListProducts_Repository(w) ==
    /\ pcall[w].pc = "repoList"
    /\ \/ LET k == pcall[w].cacheKey
              r == RepoListProducts(k[2], k[3], k[4])
          IN pcall' = [pcall EXCEPT ![w] =
                          IF r.panic THEN ProductReturns(@, NoProduct, "index out of range")
                          ELSE [@ EXCEPT !.pc = "cacheSetList", !.products = r.products,
                                         !.nextPageToken = r.nextPageToken]]
       \/ pcall' = [pcall EXCEPT ![w] = ProductReturns(@, NoProduct, "database error")]
    /\ UNCHANGED <<products, redis, issued, calls, orderVars>>

\* json.Marshal and redis.Set of the page a ListProducts is about to return.
CacheSetList(w) ==
    /\ pcall[w].pc = "cacheSetList"
    /\ \/ redis' = RedisSet(pcall[w].cacheKey,
                            [Products |-> [i \in DOMAIN pcall[w].products |->
                                              MarshalProduct(pcall[w].products[i])],
                             NextPageToken |-> pcall[w].nextPageToken])
       \/ redis' = redis
    /\ pcall' = [pcall EXCEPT ![w] = ProductReturns(@, NoProduct, "")]
    /\ UNCHANGED <<products, issued, calls, orderVars>>

\* The call returns to its caller.
ProductReturn(w) ==
    /\ pcall[w].pc = "done"
    /\ pcall' = [pcall EXCEPT ![w] = NoProductCall]
    /\ UNCHANGED <<products, redis, issued, calls, orderVars>>

\* A key reaches its defaultCacheTTL and Redis drops it.
Expire ==
    /\ \E key \in DOMAIN redis : redis' = RedisDel(key)
    /\ UNCHANGED <<products, pcall, issued, calls, orderVars>>

ProductStep(w) ==
    \/ GetProduct_Repository(w)
    \/ CacheSet(w)
    \/ CacheDel(w)
    \/ ListProducts_Repository(w)
    \/ CacheSetList(w)
    \/ ProductReturn(w)

\* The catalogue an earlier run left: empty, or one product, which a
\* CreateProduct committed and cached (the key has expired since, or not).
SeedProductModel ==
    FromProductDomain([NoProduct EXCEPT !.ID = SeedID, !.Name = "n1", !.Category = "k1",
                                        !.Status = ProductStatusActive,
                                        !.CreatedAt = <<0, 1>>, !.UpdatedAt = <<0, 1>>])

InitProduct ==
    /\ \/ /\ products = << >>
          /\ redis = << >>
          /\ issued = {}
       \/ /\ products = (SeedID :> SeedProductModel)
          /\ \/ redis = << >>
             \/ redis = (productKey(SeedID) :> MarshalProduct(ToProductDomain(SeedProductModel)))
          /\ issued = {SeedID}
    /\ pcall = [w \in Workers |-> NoProductCall]
    /\ calls = 0
    /\ orders = << >>
    /\ outbox = << >>
    /\ tx = [w \in Workers |-> NoTx]
    /\ pc = [w \in Workers |-> "idle"]
    /\ call = [w \in Workers |-> NoCall]
    /\ client = NoClient
    /\ consumed = << >>
    /\ factory = NoFactoryCall

Sequential == \A v \in Workers : pcall[v].pc = "idle"

\* One caller: every call returns before the next one is made.
NextProductSeq ==
    \/ /\ Sequential
       /\ \E w \in Workers, name \in ProductNames, category \in ProductCategories :
             CreateProduct(w, name, category)
    \/ /\ Sequential
       /\ \E w \in Workers, id \in UUIDs : GetProduct(w, id)
    \/ /\ Sequential
       /\ \E w \in Workers, id \in UUIDs, name \in ProductNames : UpdateProduct(w, id, name)
    \/ /\ Sequential
       /\ \E w \in Workers, id \in UUIDs : DeleteProduct(w, id)
    \/ /\ Sequential
       /\ \E w \in Workers, category \in ListCategories, pageSize \in PageSizes :
             ListProducts(w, category, pageSize, EmptyID)
    \/ \E w \in Workers : ProductStep(w)
    \/ Expire

SpecProductSeq == InitProduct /\ [][NextProductSeq]_vars

\* Redis is up: it takes every command of the step and answers it.
RedisAnswers(w) ==
    /\ pcall[w].pc = "cacheDel" => productKey(pcall[w].productID) \notin DOMAIN redis'
    /\ pcall[w].pc = "cacheSet" =>
          redis' = RedisSet(productKey(pcall[w].product.ID), MarshalProduct(pcall[w].product))
    /\ pcall[w].pc = "cacheSetList" => pcall[w].cacheKey \in DOMAIN redis'

\* Concurrent callers of RedisProductRepository, each on a goroutine of its
\* own, while Redis is up and no key expires.
NextProduct ==
    \/ \E w \in Workers : CreateProduct(w, "n1", "k1")
    \/ \E w \in Workers, id \in UUIDs :
          /\ GetProduct(w, id)
          /\ productKey(id) \in DOMAIN redis => pcall'[w].pc = "done"
    \/ \E w \in Workers, id \in UUIDs : UpdateProduct(w, id, "n2")
    \/ \E w \in Workers, id \in UUIDs : DeleteProduct(w, id)
    \/ \E w \in Workers :
          /\ ListProducts(w, "", 0, EmptyID)
          /\ categoryKey("", 0, EmptyID) \in DOMAIN redis => pcall'[w].pc = "done"
    \/ \E w \in Workers : ProductStep(w) /\ RedisAnswers(w)

SpecProduct == InitProduct /\ [][NextProduct]_vars

\* ------------------------------------------------------- the factories
\* OrderFactory and ProductFactory: every operation is the same loop over the
\* configured services, with an error message of its own.
FactoryOps == {"CreateOrder", "GetOrder", "ListOrders", "UpdateOrderStatus",
               "CreateProduct", "GetProduct", "ListProducts", "UpdateProduct", "DeleteProduct"}

\* The errors a service may return.
ServiceErrors == {"unavailable", "not found"}

\* Slip: the error of the last service returned when all of them failed.
FactoryError_Last(op, errs) ==
    IF errs # << >> THEN errs[Len(errs)]
    ELSE "failed"

\* errors.New(...) after the loop.
FactoryError(op, errs) ==
    CASE op = "CreateOrder" -> "failed to create order"
      [] op = "GetOrder" -> "order not found"
      [] op = "ListOrders" -> "failed to list orders"
      [] op = "UpdateOrderStatus" -> "failed to update order status"
      [] op = "CreateProduct" -> "failed to create product"
      [] op = "GetProduct" -> "product not found"
      [] op = "ListProducts" -> "failed to list products"
      [] op = "UpdateProduct" -> "failed to update product"
      [] op = "DeleteProduct" -> "failed to delete product"

\* A factory operation is called on a factory configured with n services.
FactoryCall(op, n) ==
    /\ factory.pc = "idle"
    /\ factory' = [NoFactoryCall EXCEPT !.pc = "loop", !.op = op, !.n = n, !.i = 1]
    /\ UNCHANGED <<orders, outbox, tx, pc, call, issued, calls, client, consumed, products, redis, pcall>>

\* One iteration of the range loop: the service is called; its result is
\* returned if it succeeded, otherwise its error is dropped and the loop goes on.
FactoryNextService ==
    /\ factory.pc = "loop"
    /\ factory.i <= factory.n
    /\ \/ factory' = [factory EXCEPT !.pc = "done", !.invoked = Append(@, factory.i),
                                     !.result = <<"result of service", factory.i>>, !.err = ""]
       \/ \E e \in ServiceErrors :
             factory' = [factory EXCEPT !.invoked = Append(@, factory.i), !.errs = Append(@, e),
                                        !.i = @ + 1]
    /\ UNCHANGED <<orders, outbox, tx, pc, call, issued, calls, client, consumed, products, redis, pcall>>

\* The loop ended without a success.
FactoryAllFailed ==
    /\ factory.pc = "loop"
    /\ factory.i > factory.n
    /\ factory' = [factory EXCEPT !.pc = "done", !.result = << >>,
                                  !.err = FactoryError(factory.op, factory.errs)]
    /\ UNCHANGED <<orders, outbox, tx, pc, call, issued, calls, client, consumed, products, redis, pcall>>

FactoryReturn ==
    /\ factory.pc = "done"
    /\ factory' = NoFactoryCall
    /\ UNCHANGED <<orders, outbox, tx, pc, call, issued, calls, client, consumed, products, redis, pcall>>

NextFactory ==
    \/ \E op \in FactoryOps, n \in 0..MaxServices : FactoryCall(op, n)
    \/ FactoryNextService
    \/ FactoryAllFailed
    \/ FactoryReturn

SpecFactory == Init /\ [][NextFactory]_vars

\* -------------------------------- an update racing with the create
\* One order is created while updates of it arrive: a create, then updates
\* of the id it is being given, to PROCESSING or back to PENDING.
NextRace ==
    \/ /\ Quiet
       /\ \E w \in Workers : CreateOrder(w, "http", "c1", <<Item1, Item2>>)
    \/ /\ Quiet
       /\ \E w \in Workers, s \in {OrderStatusPending, OrderStatusProcessing} :
             UpdateOrderStatusRequest(MaxRaceCalls, w, SeedID, s)
    \/ \E w \in Workers : Step(w)

SpecRace == Init /\ [][NextRace]_vars

TypeOK ==
    /\ \A w \in Workers : tx[w].state \in {"none", "open", "committed", "rolledback", "aborted"}
    /\ \A id \in DOMAIN orders : orders[id].ID = id

\* ================================================================ claims
Done(w) == pc[w] = "done"
Succeeded(w, op) == pc[w] = "done" /\ call[w].op = op /\ call[w].err = ""
Failed(w, op) == pc[w] = "done" /\ call[w].op = op /\ call[w].err # ""

\* The step in which worker w's Commit succeeds.
CommitsNow(w, op) ==
    pc[w] = "commit" /\ pc'[w] = "done" /\ call[w].op = op /\ call'[w].err = ""

\* The committed outbox grows by exactly the row e(last).
AppendsOne(P(_)) ==
    /\ Len(outbox') = Len(outbox) + 1
    /\ SubSeq(outbox', 1, Len(outbox)) = outbox
    /\ P(outbox'[Len(outbox')])

\* The five fields of an order the callers and the consumer compare.
SameOrder(a, b) ==
    /\ a.ID = b.ID
    /\ a.CustomerID = b.CustomerID
    /\ a.Items = b.Items
    /\ a.Status = b.Status
    /\ a.TotalAmount = b.TotalAmount

\* C1: in every observable state, under any interleaving of service calls, an
\* order row is committed if and only if an ORDER_CREATED outbox row with its
\* id as aggregate_id is committed.
OrderIffCreatedEntry ==
    \A id \in UUIDs :
        (id \in DOMAIN orders) <=>
        (\E i \in DOMAIN outbox : /\ outbox[i].EventType = EventTypeOrderCreated
                                  /\ outbox[i].AggregateID = id)

\* C1 witness: a pair committed by a call of this run is visible while another
\* transaction holds uncommitted writes.
PairVisibleBesideOpenTx ==
    \E w \in Workers, v \in Workers :
        /\ Succeeded(w, "CreateOrder")
        /\ call[w].result.ID \in DOMAIN orders
        /\ tx[v].state = "open"
        /\ (tx[v].ins # {} \/ tx[v].out # << >>)

\* C2: the commit of a successful CreateOrder adds exactly one order row, the
\* returned order's, and exactly one outbox row, of type ORDER_CREATED with
\* that order's id as aggregate_id, in one step, and nothing else.
CreateCommitsOnePair ==
    [][\A w \in Workers :
          CommitsNow(w, "CreateOrder") =>
            LET o == call'[w].result
                IsCreatedEntry(e) == /\ e.EventType = EventTypeOrderCreated
                                     /\ e.AggregateID = o.ID
                                     /\ e.AggregateType = AggregateTypeOrder
            IN /\ o.ID # EmptyID
               /\ o.ID \notin DOMAIN orders
               /\ DOMAIN orders' = DOMAIN orders \cup {o.ID}
               /\ \A id \in DOMAIN orders : orders'[id] = orders[id]
               /\ AppendsOne(IsCreatedEntry)]_vars

\* C2 witness: a CreateOrder has returned its order.
CreateReturnedOrder ==
    \E w \in Workers : Succeeded(w, "CreateOrder") /\ call[w].result.ID # EmptyID

\* C3: when CreateOrder returns an error, whatever the step that failed, no
\* order row and no outbox row of that call is committed.
FailedCreateLeavesNothing ==
    \A w \in Workers :
        Failed(w, "CreateOrder") =>
          /\ call[w].orderID \notin DOMAIN orders
          /\ \A i \in DOMAIN outbox :
                /\ outbox[i].ID # call[w].seq
                /\ call[w].orderID # EmptyID => outbox[i].AggregateID # call[w].orderID

\* C3 witness: a CreateOrder failed between its two writes and has returned.
CreateFailedBetweenWrites ==
    \E w \in Workers :
        /\ Failed(w, "CreateOrder")
        /\ call[w].err = "marshal failed"
        /\ call[w].orderID # EmptyID
        /\ tx[w].state = "rolledback"

\* C4 (as claimed): CreateOrder with an empty customer id or an empty item
\* list fails, on every entry path.
EmptyInputIsRejected ==
    \A w \in Workers :
        (Done(w) /\ call[w].op = "CreateOrder"
                 /\ (call[w].customerID = "" \/ call[w].items = << >>))
        => call[w].err # ""

\* C5: the commit of a successful UpdateOrderStatus(id, S) on an existing order
\* (its UPDATE found the row) leaves the row with status S, whatever it was,
\* touches no other row, and adds exactly one outbox row, of type
\* ORDER_STATUS_UPDATED with aggregate_id = id, in the same step.
UpdateCommitsStatusAndEntry ==
    [][\A w \in Workers :
          (CommitsNow(w, "UpdateOrderStatus") /\ call[w].rowsAffected = 1) =>
            LET id == call[w].orderID
                IsUpdatedEntry(e) == /\ e.EventType = EventTypeOrderStatusUpdated
                                     /\ e.AggregateID = id
                                     /\ e.AggregateType = AggregateTypeOrder
            IN /\ id \in DOMAIN orders
               /\ DOMAIN orders' = DOMAIN orders
               /\ orders'[id].Status = call[w].status
               /\ \A other \in DOMAIN orders \ {id} : orders'[other] = orders[other]
               /\ AppendsOne(IsUpdatedEntry)]_vars

\* C5 witness: an update to the status the order already had has committed.
UpdateToSameStatusCommitted ==
    \E w \in Workers :
        /\ Succeeded(w, "UpdateOrderStatus")
        /\ call[w].rowsAffected = 1
        /\ call[w].status = OrderStatusPending
        /\ call[w].result.Status = OrderStatusPending

\* C6 (as claimed): UpdateOrderStatus on an id with no committed order (its
\* UPDATE found no row) returns an error.
MissingOrderIsAnError ==
    \A w \in Workers :
        (Done(w) /\ call[w].op = "UpdateOrderStatus" /\ call[w].rowsAffected = 0)
        => call[w].err # ""

\* C7 (as claimed): on every path that returns an error after BeginTransaction
\* succeeded, Rollback has been invoked.
RollbackOnEveryErrorPath ==
    \A w \in Workers :
        (Done(w) /\ call[w].err # "" /\ tx[w].state # "none") => tx[w].rollbackCalls >= 1

\* C7 (amended): at return the transaction has ended, once: on success by one
\* Commit; on an error before Commit was called by one Rollback; on a failed
\* Commit by that Commit alone, without any Rollback.
TxEndedAtReturn ==
    \A w \in Workers :
        Done(w) =>
          /\ tx[w].state # "open"
          /\ call[w].err = "" =>
                tx[w].state = "committed" /\ tx[w].commitCalls = 1 /\ tx[w].rollbackCalls = 0
          /\ (call[w].err # "" /\ tx[w].state # "none") =>
                \/ tx[w].state = "rolledback" /\ tx[w].commitCalls = 0 /\ tx[w].rollbackCalls = 1
                \/ /\ tx[w].state = "aborted" /\ tx[w].commitCalls = 1 /\ tx[w].rollbackCalls = 0
                   /\ call[w].err = "commit failed"

\* C7 witness: a repository wrapper returned the error of a statement after
\* rolling its transaction back.
WrapperRolledBack ==
    \E w \in Workers :
        /\ Done(w)
        /\ call[w].op \in {"RepoCreateOrder", "RepoUpdateOrderStatus"}
        /\ call[w].err \in {"insert failed", "order not found"}
        /\ tx[w].state = "rolledback"

\* C8: the payload of the ORDER_CREATED row of a successful CreateOrder,
\* deserialized, is the order returned: same id, customer, items in order,
\* status PENDING and total.
CreatedPayloadIsReturnedOrder ==
    \A w \in Workers :
        Succeeded(w, "CreateOrder") =>
          LET r == call[w].result
              rows == {i \in DOMAIN outbox : /\ outbox[i].EventType = EventTypeOrderCreated
                                             /\ outbox[i].AggregateID = r.ID}
          IN /\ rows # {}
             /\ r.Status = OrderStatusPending
             /\ r.Items = call[w].items
             /\ r.CustomerID = call[w].customerID
             /\ \A i \in rows : SameOrder(UnmarshalOrder(outbox[i].Payload), r)

\* C8 witness: a returned order with two items has its ORDER_CREATED row committed.
CreatedPayloadCommitted ==
    \E w \in Workers :
        /\ Succeeded(w, "CreateOrder")
        /\ Len(call[w].result.Items) = 2
        /\ \E i \in DOMAIN outbox : outbox[i].ID = call[w].seq

\* C9 (as claimed): the payload of the ORDER_STATUS_UPDATED row of every
\* successful UpdateOrderStatus(id, S) has status S and is the order returned.
UpdatedPayloadHasTargetStatus ==
    \A w \in Workers :
        Succeeded(w, "UpdateOrderStatus") =>
          /\ call[w].result.Status = call[w].status
          /\ \A i \in DOMAIN outbox :
                outbox[i].ID = call[w].seq =>
                  /\ outbox[i].Payload.status = call[w].status
                  /\ SameOrder(UnmarshalOrder(outbox[i].Payload), call[w].result)

\* The sum over the items of price times quantity, from the first item on.
ItemsTotal(items) ==
    LET f[i \in 0..Len(items)] ==
            IF i = 0 THEN 0 ELSE f[i - 1] + items[i].Price * items[i].Quantity
    IN f[Len(items)]

\* C10: the total_amount CreateOrder returns and persists is the sum over the
\* items of price times quantity; for the two items 2 x 1000 and 1 x 1500 it is 3500.
TotalIsSumOfItems ==
    \A w \in Workers :
        Succeeded(w, "CreateOrder") =>
          LET r == call[w].result
          IN /\ r.TotalAmount = ItemsTotal(call[w].items)
             /\ r.ID \in DOMAIN orders
             /\ orders[r.ID].TotalAmount = ItemsTotal(call[w].items)
             /\ call[w].items = <<Item1, Item2>> => r.TotalAmount = 3500

\* C10 witness: the order of the two items has been created with total 3500.
ExampleTotalCreated ==
    \E w \in Workers :
        /\ Succeeded(w, "CreateOrder")
        /\ call[w].items = <<Item1, Item2>>
        /\ orders[call[w].result.ID].TotalAmount = 3500

\* C11: the commit of a successful CreateOrder returns an order with status
\* PENDING, a server-generated (non-empty) id that no order committed before
\* has, and server-generated timestamps with created_at = updated_at.
CreateReturnsFreshPendingOrder ==
    [][\A w \in Workers :
          CommitsNow(w, "CreateOrder") =>
            LET o == call'[w].result
            IN /\ o.Status = OrderStatusPending
               /\ o.ID # EmptyID
               /\ \A id \in DOMAIN orders : orders[id].ID # o.ID
               /\ o.CreatedAt # ZeroTime
               /\ o.CreatedAt = o.UpdatedAt]_vars

\* C11 witness: a CreateOrder returned while an earlier order was committed.
CreatedBesideEarlierOrder ==
    \E w \in Workers :
        /\ Succeeded(w, "CreateOrder")
        /\ call[w].result.CreatedAt = call[w].result.UpdatedAt
        /\ \E id \in DOMAIN orders : orders[id].CreatedAt # call[w].result.CreatedAt

\* The rows ListOrders is to return for a customer after a page token.
RowsAfter(customerID, pageToken) ==
    {id \in DOMAIN orders : orders[id].CustomerID = customerID /\ id > pageToken}

\* The ids of the orders of the pages the caller has, in the order received.
RECURSIVE PageIDs(_)
PageIDs(pages) ==
    IF pages = << >> THEN << >>
    ELSE [i \in DOMAIN Head(pages).orders |-> Head(pages).orders[i].ID] \o PageIDs(Tail(pages))

\* C12 (as claimed): with no concurrent writes, a scan that starts with the
\* empty page token and page size N >= 1 and follows nextPageToken until it is
\* empty has returned every order of the customer exactly once, ascending by id.
ScanReturnsEveryOrderOnce ==
    (/\ client.op = "ListOrders"
     /\ client.err = ""
     /\ client.pageSize >= 1
     /\ client.pageToken = EmptyID
     /\ client.pages[Len(client.pages)].nextPageToken = EmptyID)
    => PageIDs(client.pages) = SortedIDs(RowsAfter(client.customerID, EmptyID))

\* C13 (as claimed): for page size N >= 1 a page has at most N orders;
\* nextPageToken is empty exactly when fewer than N + 1 rows match after
\* pageToken; a non-empty nextPageToken is the id of the last order of the page.
NextPageTokenIsLastReturned ==
    (client.op = "ListOrders" /\ client.pageSize >= 1) =>
        \A k \in DOMAIN client.pages :
            LET page == client.pages[k]
                n == client.pageSize
            IN /\ Len(page.orders) <= n
               /\ (page.nextPageToken = EmptyID) <=>
                      (Cardinality(RowsAfter(client.customerID, page.pageToken)) < n + 1)
               /\ page.nextPageToken # EmptyID =>
                      page.nextPageToken = page.orders[Len(page.orders)].ID

OrderFixedButStatus ==
    [][/\ \A id \in DOMAIN orders :
             /\ id \in DOMAIN orders'
             /\ orders'[id].ID = orders[id].ID
             /\ orders'[id].CustomerID = orders[id].CustomerID
             /\ orders'[id].Items = orders[id].Items
             /\ orders'[id].TotalAmount = orders[id].TotalAmount
             /\ orders'[id].CreatedAt = orders[id].CreatedAt
       /\ \A w \in Workers :
             CommitsNow(w, "UpdateOrderStatus") =>
               /\ DOMAIN orders' = DOMAIN orders
               /\ \A id \in DOMAIN orders \ {call[w].orderID} : orders'[id] = orders[id]]_vars

\* C15 witness: an update has changed the status of one of two committed orders.
StatusChangedBesideOtherOrder ==
    \E w \in Workers :
        /\ Succeeded(w, "UpdateOrderStatus")
        /\ call[w].status = OrderStatusProcessing
        /\ call[w].orderID \in DOMAIN orders
        /\ orders[call[w].orderID].Status = OrderStatusProcessing
        /\ orders[call[w].orderID].UpdatedAt # orders[call[w].orderID].CreatedAt
        /\ \E other \in DOMAIN orders : other # call[w].orderID

\* C16: the outbox is append-only: every step leaves each committed outbox row
\* in place with the field values it was inserted with; rows are only added.
OutboxAppendOnly ==
    [][/\ Len(outbox') >= Len(outbox)
       /\ \A i \in DOMAIN outbox : outbox'[i] = outbox[i]]_vars

\* C16 witness: an order's ORDER_CREATED row is still there after a later
\* ORDER_STATUS_UPDATED row of the same order was committed.
EntryAddedAfterEarlierEntry ==
    \E i \in DOMAIN outbox, j \in DOMAIN outbox :
        /\ i < j
        /\ outbox[i].EventType = EventTypeOrderCreated
        /\ outbox[j].EventType = EventTypeOrderStatusUpdated
        /\ outbox[i].AggregateID = outbox[j].AggregateID

\* The committed outbox rows of an order.
EntriesOf(id) == Cardinality({i \in DOMAIN outbox : outbox[i].AggregateID = id})

\* C17: every committed order has exactly one ORDER_CREATED row, and the
\* number of outbox rows with its id as aggregate_id is 1 plus the number of
\* committed successful UpdateOrderStatus calls on it: the number is 1 when
\* the order is committed and grows, by one, in exactly the steps in which an
\* UpdateOrderStatus on it commits.
EntriesMatchWrites ==
    /\ [](\A id \in DOMAIN orders :
            Cardinality({i \in DOMAIN outbox : /\ outbox[i].AggregateID = id
                                               /\ outbox[i].EventType = EventTypeOrderCreated}) = 1)
    /\ [](\A id \in UUIDs \ DOMAIN orders : EntriesOf(id) = 0)
    /\ [][\A id \in UUIDs :
             LET committing == {w \in Workers : /\ call[w].orderID = id
                                                /\ \/ CommitsNow(w, "UpdateOrderStatus")
                                                   \/ CommitsNow(w, "CreateOrder")}
             IN EntriesOf(id)' = EntriesOf(id) + Cardinality(committing)]_vars

\* C17 witness: an order that was updated once has two outbox rows.
UpdatedOnceHasTwoEntries ==
    \E w \in Workers :
        /\ Succeeded(w, "UpdateOrderStatus")
        /\ call[w].orderID \in DOMAIN orders
        /\ EntriesOf(call[w].orderID) = 2

\* C18: every committed outbox row has aggregate_type "order", event_type
\* "order_created" or "order_status_updated", an id no other outbox row has,
\* and as aggregate_id the id of a committed order.
OutboxRowShape ==
    \A i \in DOMAIN outbox :
        /\ outbox[i].AggregateType = "order"
        /\ outbox[i].EventType \in {"order_created", "order_status_updated"}
        /\ \A j \in DOMAIN outbox : j # i => outbox[j].ID # outbox[i].ID
        /\ outbox[i].AggregateID \in DOMAIN orders

\* C18 witness: rows of both event types are committed, two of them for the
\* same order.
BothEventTypesCommitted ==
    \E w \in Workers, i \in DOMAIN outbox, j \in DOMAIN outbox :
        /\ Succeeded(w, "UpdateOrderStatus")
        /\ outbox[j].ID = call[w].seq
        /\ outbox[j].EventType = "order_status_updated"
        /\ outbox[i].EventType = "order_created"
        /\ outbox[i].AggregateID = outbox[j].AggregateID

\* C19: concurrent UpdateOrderStatus calls on the same existing order are
\* serialized by the row lock: no two open transactions hold a write on the
\* same order row; every such call whose Commit succeeds returns no error,
\* adds exactly one outbox row and leaves the order with the status it wrote,
\* so that after both have committed the status is that of the last commit.
UpdatesSerializedLastCommitWins ==
    /\ [](\A w \in Workers, v \in Workers :
            (w # v /\ tx[w].state = "open" /\ tx[v].state = "open") =>
                \A a \in tx[w].upd, b \in tx[v].upd : a.ID # b.ID)
    /\ [][\A w \in Workers :
             (CommitsNow(w, "UpdateOrderStatus") /\ call[w].rowsAffected = 1) =>
                /\ call'[w].err = ""
                /\ orders'[call[w].orderID].Status = call[w].status
                /\ Len(outbox') = Len(outbox) + 1
                /\ outbox'[Len(outbox')].ID = call[w].seq]_vars

\* C19 witness: two updates of one order to different statuses overlapped (the
\* one that arrived first committed last) and both have committed; the order
\* has the status of the last commit.
OverlappingUpdatesBothCommitted ==
    \E v \in Workers, i \in DOMAIN outbox, j \in DOMAIN outbox :
        /\ Succeeded(v, "UpdateOrderStatus")
        /\ call[v].rowsAffected = 1
        /\ i < j
        /\ outbox[j].ID = call[v].seq
        /\ outbox[i].ID > call[v].seq
        /\ outbox[i].EventType = EventTypeOrderStatusUpdated
        /\ outbox[i].AggregateID = call[v].orderID
        /\ outbox[i].Payload.status # call[v].status
        /\ outbox[i].Payload.status = OrderStatusProcessing
        /\ orders[call[v].orderID].Status = call[v].status

NoCommittedUnspecifiedStatus ==
    \A id \in DOMAIN orders : orders[id].Status # OrderStatusUnspecified

\* C22: a transaction whose request context is cancelled, or passes its
\* deadline, while the transaction is in flight is eventually rolled back
\* (again and again no cancelled transaction is open, and none ever commits);
\* neither its order write nor its outbox row becomes visible; and it does not
\* hold its row locks forever: an update waiting for a row lock eventually
\* proceeds (again and again no call is at its UPDATE statement).
CancelledTxRolledBack ==
    /\ []<>(\A w \in Workers :
              /\ ~(call[w].ctxDone /\ tx[w].state = "open")
              /\ pc[w] # "update")
    /\ [][\A w \in Workers :
             call[w].ctxDone =>
                /\ tx'[w].state # "committed"
                /\ tx[w].state = "open" => tx'[w].state \in {"open", "rolledback", "aborted"}]_vars
    /\ [](\A w \in Workers :
            call[w].ctxDone =>
               /\ \A i \in DOMAIN outbox : outbox[i].ID # call[w].seq
               /\ \A id \in DOMAIN orders :
                     /\ orders[id].CreatedAt # Now(w, 1)
                     /\ orders[id].UpdatedAt # Now(w, 1))

\* C22 witness: the context of an update that had written its status and its
\* outbox row was cancelled; the transaction was rolled back, and the update
\* of the same order that had waited for its row lock has written in turn.
CancelledUpdateReleasedLock ==
    \E v \in Workers, w \in Workers :
        /\ v # w
        /\ call[w].ctxDone
        /\ call[w].op = "UpdateOrderStatus"
        /\ call[w].rowsAffected = 1
        /\ call[w].err = "context canceled"
        /\ tx[w].state \in {"rolledback", "aborted"}
        /\ call[v].op = "UpdateOrderStatus"
        /\ call[v].orderID = call[w].orderID
        /\ call[v].seq > call[w].seq
        /\ tx[v].state = "open"
        /\ \E u \in tx[v].upd : u.ID = call[w].orderID

\* C23: the repository's own CreateOrder and UpdateOrderStatus are
\* BeginTransaction, the WithTx operation, then Commit on success or Rollback
\* on error: a successful wrapper returns the result of its WithTx operation
\* after exactly one Commit that applies that operation's writes; a wrapper
\* that fails returns no order and leaves the committed orders as they were,
\* after exactly one Rollback when the WithTx operation failed; and no wrapper
\* ever writes an outbox row.
WrapperIsWithTxInOwnTx ==
    [][\A w \in Workers :
          call[w].op \in {"RepoCreateOrder", "RepoUpdateOrderStatus"} =>
             /\ tx'[w].out = << >>
             /\ (pc[w] # "done" /\ pc'[w] = "done") => outbox' = outbox
             /\ (pc[w] # "done" /\ pc'[w] = "done" /\ call'[w].err = "") =>
                   /\ pc[w] = "commit"
                   /\ call'[w].result = call[w].created
                   /\ orders' = CommittedOrders(tx[w])
                   /\ tx'[w].state = "committed"
                   /\ tx'[w].commitCalls = 1
                   /\ tx'[w].rollbackCalls = 0
             /\ (pc[w] # "done" /\ pc'[w] = "done" /\ call'[w].err # "") =>
                   /\ call'[w].result = NoOrder
                   /\ orders' = orders
                   /\ tx'[w].state # "open"
                   /\ (pc[w] \in {"createWithTx", "update", "count", "first"}) =>
                         (tx'[w].rollbackCalls = 1 /\ tx'[w].commitCalls = 0)]_vars

\* C23 witness: the wrapper UpdateOrderStatus has committed a status change of
\* an existing order and returned the updated order; no outbox row is its.
WrapperUpdateCommitted ==
    \E w \in Workers :
        /\ Succeeded(w, "RepoUpdateOrderStatus")
        /\ call[w].rowsAffected = 1
        /\ call[w].result.ID = call[w].orderID
        /\ call[w].result.Status = OrderStatusProcessing
        /\ orders[call[w].orderID].UpdatedAt = Now(w, 1)
        /\ outbox # << >>
        /\ \A i \in DOMAIN outbox : outbox[i].ID # call[w].seq

\* C24: after a successful DeleteProduct(id) every later GetProduct(id) fails
\* (product not found, or the database's error), whether or not the product
\* was cached and whether or not the cache delete succeeded; DeleteProduct of
\* an id that has no row fails and changes neither the table nor the cache.
DeletedProductNotFound ==
    /\ [](\A w \in Workers :
            (/\ pcall[w].pc = "done"
             /\ pcall[w].op = "GetProduct"
             /\ pcall[w].productID \in issued \ DOMAIN products) =>
                (pcall[w].err # "" /\ pcall[w].result = NoProduct))
    /\ [][\A w \in Workers :
             (/\ pcall[w].pc = "idle"
              /\ pcall'[w].op = "DeleteProduct"
              /\ pcall'[w].productID \notin DOMAIN products) =>
                 /\ pcall'[w].pc = "done"
                 /\ pcall'[w].err # ""
                 /\ products' = products
                 /\ redis' = redis]_vars

\* C25: in a sequential series of calls through RedisProductRepository, every
\* read that returns (GetProduct, ListProducts) returns what the underlying
\* repository returns at that moment.
ReadsMatchUnderlyingRepository ==
    \A w \in Workers :
        /\ (pcall[w].pc = "done" /\ pcall[w].op = "GetProduct" /\ pcall[w].err # "database error") =>
              /\ pcall[w].result = RepoGetProduct(pcall[w].productID).product
              /\ pcall[w].err = RepoGetProduct(pcall[w].productID).err
        /\ (pcall[w].pc = "done" /\ pcall[w].op = "ListProducts" /\ pcall[w].err # "database error") =>
              LET k == pcall[w].cacheKey
                  r == RepoListProducts(k[2], k[3], k[4])
              IN /\ pcall[w].products = r.products
                 /\ pcall[w].nextPageToken = r.nextPageToken
                 /\ (pcall[w].err = "index out of range") = r.panic

\* C30: once a GetProduct that missed the cache and an UpdateProduct or
\* DeleteProduct of the same product that ran concurrently with it have both
\* completed, the cache entry of the product is absent or equal to the
\* product's current row in the underlying repository.
NoStaleEntryAfterRace ==
    \A w \in Workers, v \in Workers :
        (/\ pcall[w].pc = "done"
         /\ pcall[w].op = "GetProduct"
         /\ pcall[w].err = ""
         /\ pcall[w].product # NoProduct
         /\ pcall[v].pc = "done"
         /\ pcall[v].op \in {"UpdateProduct", "DeleteProduct"}
         /\ pcall[v].err = ""
         /\ pcall[v].productID = pcall[w].productID
         /\ \A u \in Workers \ {w, v} : pcall[u].pc = "idle") =>
            LET id == pcall[w].productID
            IN productKey(id) \in DOMAIN redis =>
                  /\ id \in DOMAIN products
                  /\ redis[productKey(id)] = MarshalProduct(ToProductDomain(products[id]))

\* C26: a factory operation calls the configured services in list order and
\* returns the result of the first that succeeds, calling none after it; it
\* returns an error only when every service has failed (or none is
\* configured), and that error is the operation's fixed one, whatever the
\* errors of the services were.
FactoryFirstSuccessOrFixedError ==
    /\ \A j \in DOMAIN factory.invoked : factory.invoked[j] = j
    /\ Len(factory.invoked) <= factory.n
    /\ (factory.pc = "done" /\ factory.err = "") =>
          /\ factory.invoked # << >>
          /\ factory.result = <<"result of service", Len(factory.invoked)>>
          /\ Len(factory.errs) = Len(factory.invoked) - 1
    /\ (factory.pc = "done" /\ factory.err # "") =>
          /\ Len(factory.invoked) = factory.n
          /\ Len(factory.errs) = factory.n
          /\ factory.result = << >>
          /\ factory.err = FactoryError(factory.op, << >>)
          /\ factory.err \notin ServiceErrors

\* C26 witness: the first of two services failed and the second succeeded;
\* the factory returned the second's result.
SecondServiceAnswered ==
    /\ factory.pc = "done"
    /\ factory.n = 2
    /\ factory.err = ""
    /\ factory.errs = <<"unavailable">>
    /\ factory.invoked = <<1, 2>>
    /\ factory.result = <<"result of service", 2>>

\* C27: a ListOrders call with pageSize <= 0 applies no limit: it returns
\* every order of the customer with an id greater than pageToken, with an
\* empty nextPageToken, and never fails with an out-of-range index, the empty
\* result included.
NonPositivePageSizeListsAll ==
    (client.op = "ListOrders" /\ client.pageSize <= 0 /\ client.err # "find failed") =>
        /\ client.err = ""
        /\ client.pages # << >> =>
              /\ PageIDs(<<client.pages[1]>>) =
                    SortedIDs(RowsAfter(client.customerID, client.pageToken))
              /\ client.pages[1].nextPageToken = EmptyID

\* C28: in every quiescent state (no transaction in flight), for every order
\* the last committed outbox row with its aggregate_id carries a payload whose
\* status is the order row's current status.
LastSnapshotIsCommittedState ==
    (\A w \in Workers : tx[w].state # "open") =>
        \A id \in DOMAIN orders :
            \A i \in DOMAIN outbox :
                (/\ outbox[i].AggregateID = id
                 /\ \A j \in DOMAIN outbox : outbox[j].AggregateID = id => j <= i) =>
                    outbox[i].Payload.status = orders[id].Status

\* C29: for every order, its ORDER_CREATED outbox row is committed before
\* every ORDER_STATUS_UPDATED row with the same aggregate_id, because an
\* UpdateOrderStatus whose UPDATE runs while the creating transaction is
\* uncommitted (it finds no row) fails and writes no outbox row.
CreatedPrecedesUpdated ==
    /\ \A j \in DOMAIN outbox :
          outbox[j].EventType = EventTypeOrderStatusUpdated =>
             /\ \E i \in DOMAIN outbox :
                   /\ i < j
                   /\ outbox[i].EventType = EventTypeOrderCreated
                   /\ outbox[i].AggregateID = outbox[j].AggregateID
             /\ \A i \in DOMAIN outbox :
                   (/\ outbox[i].EventType = EventTypeOrderCreated
                    /\ outbox[i].AggregateID = outbox[j].AggregateID) => i < j
    /\ \A w \in Workers :
          (Done(w) /\ call[w].op = "UpdateOrderStatus" /\ call[w].rowsAffected = 0) =>
             /\ call[w].err # ""
             /\ \A i \in DOMAIN outbox : outbox[i].ID # call[w].seq

====
